---- MODULE Spec2Model ----
(***************************************************************************)
(* A model of the dtwin RAG pipeline: the settings store, the chat         *)
(* orchestrator (POST /api/chat) with its output stream and generation,    *)
(* the LangCache REST client the orchestrator calls, and the Redis-backed  *)
(* semantic cache module.                                                  *)
(*                                                                         *)
(* Conventions.  Scores, distances and thresholds are fixed-point numbers  *)
(* in hundredths (0.15 is 15, 0.95 is 95).  Texts that the program         *)
(* concatenates or encodes are sequences of code points; prompts are       *)
(* atomic strings.  A JavaScript value that is undefined, null or '' where *)
(* the code only tests its truthiness is the empty sequence.               *)
(***************************************************************************)
EXTENDS Integers, Sequences, FiniteSets, TLC

VARIABLES
    currentSettings,    \* settings.ts: the in-memory settings object
    env,                \* process.env: which LANGCACHE_* variables are set
    langcache,          \* the LangCache service's entries (REST)
    indexExists,        \* the vector store: doc_embeddings_idx exists
    pc,                 \* chat route: where the request is suspended
    messages,           \* chat route: the request body
    settings,           \* chat route: const settings = getSettings()
    latestUserMessage,  \* chat route: the latest message with role user
    allChunks,          \* chat route: searchSimilarChunks' result
    relevantChunks,     \* chat route: allChunks after the score filter
    response,           \* chat route: the Response returned to the caller
    stream,             \* chat route: the ReadableStream of the response
    forwarded,          \* chunks the controller accepted, in order
    fullResponse,       \* chat route: let fullResponse
    genState,           \* the streamChatCompletion generator's state
    cancelled,          \* the caller cancelled the response stream
    cacheResult,        \* chat route: how checkCache ended, and its result
    calls,              \* calls made on behalf of the current request
    storeArgs,          \* arguments of this request's storeInCache calls
    config,             \* langcache module: let config
    cacheKeys,          \* Redis: the JSON documents under langcache:
    cacheIndexExists,   \* Redis: langcache_idx exists
    lcResult,           \* langcache module: the last checkCache call
    lastStored,         \* langcache module: the last storeInCache that stored
    chunkArgs,          \* document loader: the arguments of a chunkText call
    chunkResult,        \* document loader: what the call returned
    ingest,             \* ingestion: the route of the run, upload or gdrive
    ingestPc,           \* ingestion: where the run is suspended
    files,              \* ingestion: the batch of documents of the run
    results,            \* ingestion: const results = []
    faults,             \* ingestion: what went wrong with each file so far
    docs,               \* Redis: the JSON documents under doc:
    ingestResponse,     \* ingestion: the response of the run
    callers,            \* createVectorIndex: where each concurrent call is
    ftCreates,          \* Redis: FT.CREATE commands that created the index
    logs,               \* logger: const logs
    added,              \* logger: the entries added since the last clear
    clears              \* logger: clearLogs calls so far

envVars == <<currentSettings, env, langcache, indexExists>>
reqVars == <<pc, messages, settings, latestUserMessage, allChunks,
             relevantChunks, response, stream, forwarded, fullResponse,
             genState, cancelled, cacheResult, calls, storeArgs>>
lcVars == <<config, cacheKeys, cacheIndexExists, lcResult, lastStored>>
docVars == <<chunkArgs, chunkResult>>
ingVars == <<ingest, ingestPc, files, results, faults, docs, ingestResponse>>
idxVars == <<callers, ftCreates>>
logVars == <<logs, added, clears>>
vars == <<envVars, reqVars, lcVars, docVars, ingVars, idxVars, logVars>>

----------------------------------------------------------------------------
(* Bounds of the model *)

\* provider chunks one generation may deliver
MaxFragments == 2
\* entries the LangCache service holds
MaxCacheEntries == 2
\* documents the Redis semantic cache holds
MaxCacheKeys == 2
\* largest topK of the retrieval settings tried
MaxTopK == 3
\* chunks the vector store holds near a query
MaxStored == 3
\* characters of a text given to chunkText
MaxTextLen == 6
\* documents of one ingestion batch
MaxFiles == 2
\* chunks of one ingested document
MaxChunks == 2
\* requests that call createVectorIndex at the same time
MaxCallers == 2
\* createVectorIndex calls one of them makes in sequence
MaxIndexCalls == 2
\* entries added to the log between two clears
MaxAdded == 502
\* clearLogs calls
MaxClears == 1

----------------------------------------------------------------------------
(* Texts *)

Prompts == {"q1", "q2"}

\* The content of the provider's n-th delta that has any: the completion
\* reads "a", "é", "a", ...  A delta without content is not yielded by
\* streamChatCompletion (if (content)) and changes nothing: it is a
\* stuttering step.
ProviderChunk(n) == IF n % 2 = 1 THEN <<97>> ELSE <<233>>

RECURSIVE Concat(_)
Concat(ss) == IF ss = <<>> THEN <<>> ELSE Head(ss) \o Concat(Tail(ss))

\* TextEncoder.encode: UTF-8, one byte below U+0080, two below U+0800.
RECURSIVE encode(_)
encode(text) ==
    IF text = <<>> THEN <<>>
    ELSE LET c == Head(text) IN
         (IF c < 128 THEN <<c>> ELSE <<192 + (c \div 64), 128 + (c % 64)>>)
            \o encode(Tail(text))

\* The text a caller decodes from the bytes it received (TextDecoder).
RECURSIVE decode(_)
decode(bytes) ==
    IF bytes = <<>> THEN <<>>
    ELSE IF Head(bytes) < 128 THEN <<Head(bytes)>> \o decode(Tail(bytes))
    ELSE IF Len(bytes) >= 2
         THEN <<(Head(bytes) - 192) * 64 + (bytes[2] - 128)>>
                 \o decode(Tail(Tail(bytes)))
         ELSE <<65533>>

----------------------------------------------------------------------------
(* The settings store *)

defaultSettings ==
    [vectordb  |-> [topK |-> 5, scoreThreshold |-> 70],
     langcache |-> [enabled |-> TRUE, similarityThreshold |-> 95]]

getSettings == currentSettings

\* { ...a, ...b }: b's own keys override a's.
Spread(a, b) ==
    [k \in (DOMAIN a) \cup (DOMAIN b) |-> IF k \in DOMAIN b THEN b[k] ELSE a[k]]

\* A Partial<Settings>: each section may be missing (the empty function).
Absent == [k \in {} |-> 0]

SettingsPatches ==
    { [vectordb |-> Absent,
       langcache |-> [enabled |-> FALSE, similarityThreshold |-> 80]],
      [vectordb |-> [topK |-> 1, scoreThreshold |-> 0], langcache |-> Absent] }

updateSettings(newSettings) ==
    [vectordb  |-> Spread(currentSettings.vectordb, newSettings.vectordb),
     langcache |-> Spread(currentSettings.langcache, newSettings.langcache)]

resetSettings == defaultSettings

UpdateSettings ==
    /\ \E newSettings \in SettingsPatches :
          currentSettings' = updateSettings(newSettings)
    /\ UNCHANGED <<env, langcache, indexExists, reqVars, lcVars, docVars, ingVars, idxVars, logVars>>

ResetSettings ==
    /\ currentSettings' = resetSettings
    /\ UNCHANGED <<env, langcache, indexExists, reqVars, lcVars, docVars, ingVars, idxVars, logVars>>

----------------------------------------------------------------------------
(* The LangCache service (REST) and its client, lib/cache.ts *)

\* Cosine distance between the embeddings of two prompts.
Dist(p, q) == IF p = q THEN 0 ELSE 10

Entry(p, r) == [prompt |-> p, response |-> r]

\* The distances within which the service may be set up to admit a match.
ServiceThresholds == {0, 10}

\* POST /entries/search: the possible "data" arrays.  Only entries within the
\* service's threshold are returned, nearest first; ties come in any order.
\* The client reads data[0] only, so the arrays are cut to their first entry.
LangCacheSearch(prompt) ==
    LET within(t) == {e \in langcache : Dist(e.prompt, prompt) <= t}
        nearest(t) == {e \in within(t) :
                         \A o \in within(t) :
                            Dist(e.prompt, prompt) <= Dist(o.prompt, prompt)}
    IN  UNION { IF within(t) = {} THEN {<<>>}
                ELSE {<<[response |-> e.response, prompt |-> e.prompt,
                         distance |-> Dist(e.prompt, prompt)]>> : e \in nearest(t)}
                : t \in ServiceThresholds }

\* How a fetch to the service may end.
FetchOutcomes == {"ok", "notOk", "networkError"}

\* getConfig throws unless every LANGCACHE_* variable is set.
getConfigThrows == ~env.langcache

CacheMiss == [hit |-> FALSE, response |-> <<>>, distance |-> -1, cachedPrompt |-> ""]

checkCache(prompt, fetch, data) ==
    IF getConfigThrows \/ fetch = "networkError" THEN CacheMiss
    ELSE IF fetch = "notOk" THEN CacheMiss
    ELSE IF Len(data) > 0 /\ data[1].response # <<>>
         THEN [hit |-> TRUE, response |-> data[1].response,
               distance |-> data[1].distance, cachedPrompt |-> data[1].prompt]
         ELSE CacheMiss

\* The service's entries after storeInCache(prompt, resp): the entry is
\* posted unless getConfig throws or the fetch fails.
storeInCache(prompt, resp, fetch) ==
    IF getConfigThrows \/ fetch # "ok" THEN langcache
    ELSE langcache \cup {Entry(prompt, resp)}

\* The service has room for the entry.
HasRoom(prompt, resp) ==
    \/ Entry(prompt, resp) \in langcache
    \/ Cardinality(langcache) < MaxCacheEntries

\* DELETE /api/cache: clearCache posts a flush.
clearCache(fetch) ==
    IF getConfigThrows \/ fetch # "ok" THEN langcache ELSE {}

ClearCache ==
    /\ \E fetch \in FetchOutcomes : langcache' = clearCache(fetch)
    /\ UNCHANGED <<currentSettings, env, indexExists, reqVars, lcVars, docVars, ingVars, idxVars, logVars>>

----------------------------------------------------------------------------
(* The Redis-backed semantic cache module (langcache) *)

DEFAULT_DISTANCE_THRESHOLD == 15
DEFAULT_TTL == 3600

\* a || b on numbers: b where a is 0 (or undefined)
OrElse(a, b) == IF a = 0 THEN b ELSE a

\* The Partial<CacheConfig> values setLangCacheConfig is called with.
CacheConfigPatches ==
    { [distanceThreshold |-> 0], [distanceThreshold |-> 10],
      [distanceThreshold |-> -5], [ttl |-> 0] }

setLangCacheConfig(newConfig) == Spread(config, newConfig)

\* A JSON document under langcache:<id>; expires tells whether the key has
\* a time to live.
CacheKey(prompt, resp, expires) ==
    [prompt |-> prompt, response |-> resp, expires |-> expires]

\* The responses storeInCache is called with: '', "a", "é".
Responses == {<<>>, <<97>>, <<233>>}

NoCheck == [prompt |-> "", outcome |-> "none", hit |-> FALSE,
            response |-> <<>>, similarity |-> 0, found |-> FALSE,
            distance |-> 0, similarityThreshold |-> 0]

NothingStored == [prompt |-> "", response |-> <<>>]

\* How the calls a cache operation awaits may end: all return, Redis cannot
\* be reached, the embedding call fails, or (store) redis.expire fails
\* after the document was set.
RedisOutcomes == {"ok", "redisDown", "embeddingError", "expireFailed"}

\* A search that sorts by distance descending.
Knn1_farthest(prompt) ==
    {e \in cacheKeys :
        \A o \in cacheKeys : Dist(e.prompt, prompt) >= Dist(o.prompt, prompt)}

\* FT.SEARCH ... KNN 1 @embedding $vec AS distance, SORTBY distance ASC: the
\* documents it may return.  Among equally near documents any one may come.
Knn1(prompt) ==
    {e \in cacheKeys :
        \A o \in cacheKeys : Dist(e.prompt, prompt) <= Dist(o.prompt, prompt)}

\* distance <= (config.distanceThreshold || DEFAULT_DISTANCE_THRESHOLD)
WithinThreshold(distance) ==
    distance <= OrElse(config.distanceThreshold, DEFAULT_DISTANCE_THRESHOLD)

\* checkCache(prompt) of the langcache module, where the search returned
\* topResult (or nothing: found = FALSE).  A failure on the way is caught
\* and answered { hit: false }.
LC_checkCache(prompt, outcome, found, topResult) ==
    LET distance == Dist(topResult.prompt, prompt)
        base == [NoCheck EXCEPT !.prompt = prompt, !.outcome = outcome,
                    !.similarityThreshold =
                        currentSettings.langcache.similarityThreshold]
    IN  IF outcome # "ok" THEN base
        ELSE IF ~found THEN base
        ELSE IF WithinThreshold(distance)
             THEN [base EXCEPT !.found = TRUE, !.distance = distance,
                               !.hit = TRUE,
                               !.response = topResult.response,
                               !.similarity = 100 - distance]
             ELSE [base EXCEPT !.found = TRUE, !.distance = distance]

\* if (config.ttl && config.ttl > 0) await redis.expire(key, config.ttl)
SetsTtl == config.ttl # 0 /\ config.ttl > 0

\* The documents after storeInCache(prompt, resp): redis.json.set adds one,
\* which gets a time to live if one is configured and redis.expire succeeds.
LC_storeInCache(prompt, resp, outcome) ==
    IF outcome \in {"redisDown", "embeddingError"} THEN cacheKeys
    ELSE cacheKeys \cup {CacheKey(prompt, resp, SetsTtl /\ outcome = "ok")}

\* redis.keys('langcache:*') and redis.del(keys)
LC_clearCache(outcome) == IF outcome = "redisDown" THEN cacheKeys ELSE {}

SetLangCacheConfig ==
    /\ \E newConfig \in CacheConfigPatches :
          config' = setLangCacheConfig(newConfig)
    /\ lcResult' = NoCheck
    /\ UNCHANGED <<cacheKeys, cacheIndexExists, lastStored, envVars, reqVars, docVars, ingVars, idxVars, logVars>>

\* storeInCache(prompt, response) from call to return.
LCStore ==
    /\ \E prompt \in Prompts, resp \in Responses, outcome \in RedisOutcomes :
         LET after == LC_storeInCache(prompt, resp, outcome) IN
         /\ Cardinality(after) <= MaxCacheKeys
         /\ cacheKeys' = after
         /\ cacheIndexExists' = (cacheIndexExists \/ outcome # "redisDown")
         /\ lastStored' =
               IF outcome \in {"redisDown", "embeddingError"} THEN lastStored
               ELSE [prompt |-> prompt, response |-> resp]
    /\ lcResult' = NoCheck
    /\ UNCHANGED <<config, envVars, reqVars, docVars, ingVars, idxVars, logVars>>

\* checkCache(prompt) from call to return.
LCCheck ==
    /\ \E prompt \in Prompts, outcome \in RedisOutcomes \ {"expireFailed"} :
         /\ cacheIndexExists' = (cacheIndexExists \/ outcome # "redisDown")
         /\ IF cacheKeys = {}
            THEN lcResult' = LC_checkCache(prompt, outcome, FALSE,
                                           CacheKey(prompt, <<>>, FALSE))
            ELSE \E topResult \in Knn1(prompt) :
                    lcResult' = LC_checkCache(prompt, outcome, TRUE, topResult)
    /\ UNCHANGED <<config, cacheKeys, lastStored, envVars, reqVars, docVars, ingVars, idxVars, logVars>>

\* Redis drops a key whose time to live has run out.
LCExpire ==
    /\ \E e \in cacheKeys :
         /\ e.expires
         /\ cacheKeys' = cacheKeys \ {e}
    /\ lcResult' = NoCheck
    /\ UNCHANGED <<config, cacheIndexExists, lastStored, envVars, reqVars, docVars, ingVars, idxVars, logVars>>

\* clearCache()
LCClear ==
    /\ \E outcome \in {"ok", "redisDown"} : cacheKeys' = LC_clearCache(outcome)
    /\ lcResult' = NoCheck
    /\ UNCHANGED <<config, cacheIndexExists, lastStored, envVars, reqVars, docVars, ingVars, idxVars, logVars>>

----------------------------------------------------------------------------
(* The document loader: chunkText *)

NoChunkArgs == [text |-> <<>>, chunkSize |-> 0, overlap |-> 0]
NotChunked == [returned |-> FALSE, chunks |-> <<>>, closed |-> <<>>]

\* Texts are sequences of characters.
Whitespace == {" "}
Terminators == {"."}

\* .replace(/\s+/g, ' ')
RECURSIVE CollapseWhitespace(_)
CollapseWhitespace(text) ==
    IF text = <<>> THEN <<>>
    ELSE IF Head(text) \in Whitespace
         THEN IF Len(text) >= 2 /\ text[2] \in Whitespace
              THEN CollapseWhitespace(Tail(text))
              ELSE <<" ">> \o CollapseWhitespace(Tail(text))
         ELSE <<Head(text)>> \o CollapseWhitespace(Tail(text))

\* .trim()
RECURSIVE Trim(_)
Trim(text) ==
    IF text = <<>> THEN <<>>
    ELSE IF Head(text) \in Whitespace THEN Trim(Tail(text))
    ELSE IF text[Len(text)] \in Whitespace
         THEN Trim(SubSeq(text, 1, Len(text) - 1))
    ELSE text

\* The cleaned text.
Normalize(text) == Trim(CollapseWhitespace(text))

\* The length of the longest prefix of text whose characters are in (or,
\* with inside = FALSE, not in) the set.
RECURSIVE RunLength(_, _, _)
RunLength(text, set, inside) ==
    IF text = <<>> \/ ((Head(text) \in set) # inside) THEN 0
    ELSE 1 + RunLength(Tail(text), set, inside)

\* cleanedText.match(/[^.!?]+[.!?]+/g): the matches from left to right.  A
\* match is a longest run of other characters with the longest run of
\* terminators behind it; terminators in front of a match and a last run
\* without a terminator are in no match.
RECURSIVE MatchSentences(_)
MatchSentences(text) ==
    LET from == SubSeq(text, RunLength(text, Terminators, TRUE) + 1, Len(text))
        n == RunLength(from, Terminators, FALSE)
        m == RunLength(SubSeq(from, n + 1, Len(from)), Terminators, TRUE)
    IN  IF from = <<>> \/ m = 0 THEN <<>>
        ELSE <<SubSeq(from, 1, n + m)>>
                \o MatchSentences(SubSeq(from, n + m + 1, Len(from)))

\* ... || [cleanedText]
Sentences(cleanedText) ==
    IF MatchSentences(cleanedText) = <<>> THEN <<cleanedText>>
    ELSE MatchSentences(cleanedText)

\* str.split(' ')
RECURSIVE Split(_)
Split(str) ==
    LET n == RunLength(str, {" "}, FALSE) IN
    IF n = Len(str) THEN <<str>>
    ELSE <<SubSeq(str, 1, n)>> \o Split(SubSeq(str, n + 2, Len(str)))

\* words.join(' ')
RECURSIVE Join(_)
Join(words) ==
    IF words = <<>> THEN <<>>
    ELSE IF Len(words) = 1 THEN words[1]
    ELSE words[1] \o <<" ">> \o Join(Tail(words))

\* Mutant: the loop stops one word late (overlapLength <= overlap).
RECURSIVE OverlapWords_late(_, _, _, _, _)
OverlapWords_late(words, i, overlapWords, overlapLength, overlap) ==
    IF i >= 1 /\ overlapLength <= overlap
    THEN OverlapWords_late(words, i - 1, <<words[i]>> \o overlapWords,
                           overlapLength + Len(words[i]) + 1, overlap)
    ELSE overlapWords

\* for (let i = words.length - 1; i >= 0 && overlapLength < overlap; i--)
\*   { overlapWords.unshift(words[i]); overlapLength += words[i].length + 1 }
\* (i counts from 1 here)
RECURSIVE OverlapWords(_, _, _, _, _)
OverlapWords(words, i, overlapWords, overlapLength, overlap) ==
    IF i >= 1 /\ overlapLength < overlap
    THEN OverlapWords(words, i - 1, <<words[i]>> \o overlapWords,
                      overlapLength + Len(words[i]) + 1, overlap)
    ELSE overlapWords

\* The loop over the sentences from sentence k on: the chunks pushed (the
\* code's allChunks) at its end,
\* and for every chunk closed inside the loop the currentChunk that was
\* closed and the words carried over.
RECURSIVE SentenceLoop(_, _, _, _, _, _, _)
SentenceLoop(sentences, k, currentChunk, pushed, closed, chunkSize, overlap) ==
    IF k > Len(sentences)
    THEN [pushed |-> IF Len(Trim(currentChunk)) > 0
                        THEN Append(pushed, Trim(currentChunk))
                        ELSE pushed,
          closed |-> closed]
    ELSE LET sentence == sentences[k] IN
         IF Len(currentChunk) + Len(sentence) > chunkSize
               /\ Len(currentChunk) > 0
         THEN LET words == Split(currentChunk)
                  overlapWords ==
                      OverlapWords(words, Len(words), <<>>, 0, overlap)
              IN  SentenceLoop(sentences, k + 1,
                      Join(overlapWords) \o <<" ">> \o sentence,
                      Append(pushed, Trim(currentChunk)),
                      Append(closed, [currentChunk |-> currentChunk,
                                      overlapWords |-> overlapWords]),
                      chunkSize, overlap)
         ELSE SentenceLoop(sentences, k + 1, currentChunk \o sentence,
                           pushed, closed, chunkSize, overlap)

\* chunkText(text, chunkSize, overlap): the chunks returned, with the
\* closings of the loop.
chunkText(text, chunkSize, overlap) ==
    LET cleanedText == Normalize(text) IN
    IF Len(cleanedText) = 0
    THEN [returned |-> TRUE, chunks |-> <<>>, closed |-> <<>>]
    ELSE LET r == SentenceLoop(Sentences(cleanedText), 1, <<>>, <<>>, <<>>,
                               chunkSize, overlap)
         IN  [returned |-> TRUE,
              chunks |-> [index \in 1..Len(r.pushed) |->
                            [content |-> r.pushed[index],
                             chunkIndex |-> index - 1,
                             totalChunks |-> Len(r.pushed)]],
              closed |-> r.closed]

\* A call of chunkText returns.
ChunkText ==
    /\ ~chunkResult.returned
    /\ chunkResult' = chunkText(chunkArgs.text, chunkArgs.chunkSize,
                                chunkArgs.overlap)
    /\ UNCHANGED <<chunkArgs, envVars, reqVars, lcVars, ingVars, idxVars, logVars>>

----------------------------------------------------------------------------
(* The response stream: a ReadableStream with its default controller *)

NoStream  == [state |-> "none", closeRequested |-> FALSE,
              queue |-> <<>>, delivered |-> <<>>]
NewStream == [NoStream EXCEPT !.state = "readable"]

\* Mutant: enqueue and close never throw (their failures are swallowed).
CanCloseOrEnqueue_always(s) == TRUE

\* ReadableStreamDefaultControllerCanCloseOrEnqueue
CanCloseOrEnqueue(s) == s.state = "readable" /\ ~s.closeRequested

\* controller.enqueue(chunk), where it does not throw
ControllerEnqueue(s, chunk) == [s EXCEPT !.queue = Append(@, chunk)]

\* controller.close(), where it does not throw
ControllerClose(s) ==
    [s EXCEPT !.closeRequested = TRUE,
              !.state = IF s.queue = <<>> THEN "closed" ELSE @]

\* controller.error(e): a no-op unless the stream is readable
ControllerError(s) ==
    IF s.state # "readable" THEN s
    ELSE [s EXCEPT !.state = "errored", !.queue = <<>>]

\* The caller reads the next chunk of the body.
StreamRead(s) ==
    [s EXCEPT !.delivered = Append(@, Head(s.queue)),
              !.queue = Tail(@),
              !.state = IF s.closeRequested /\ Tail(s.queue) = <<>>
                        THEN "closed" ELSE @]

\* The caller cancels the body (it disconnected).
StreamCancel(s) == [s EXCEPT !.state = "closed", !.queue = <<>>]

----------------------------------------------------------------------------
(* The chat orchestrator: POST /api/chat *)

Msg(role, content) == [role |-> role, content |-> content]
NoMessage == Msg("none", "")

\* Request bodies: messages missing, empty, without a user message, and
\* conversations that end in different latest user messages.
RequestBodies ==
    { [hasMessages |-> FALSE, messages |-> <<>>],
      [hasMessages |-> TRUE,  messages |-> <<>>],
      [hasMessages |-> TRUE,  messages |-> <<Msg("assistant", "hello")>>],
      [hasMessages |-> TRUE,  messages |-> <<Msg("user", "q2")>>],
      [hasMessages |-> TRUE,  messages |->
          <<Msg("user", "q1"), Msg("user", "q2"), Msg("assistant", "hello")>>] }

\* Mutant: the first user message is taken (shift() where the code has pop()).
LatestUser_first(msgs) ==
    LET users == SelectSeq(msgs, LAMBDA m : m.role = "user")
    IN  IF users = <<>> THEN NoMessage ELSE users[1]

\* messages.filter((m) => m.role === 'user').pop()
LatestUser(msgs) ==
    LET users == SelectSeq(msgs, LAMBDA m : m.role = "user")
    IN  IF users = <<>> THEN NoMessage ELSE users[Len(users)]

NoResponse == [kind |-> "none", status |-> 0, xCache |-> "none",
               error |-> "", text |-> <<>>]
JsonError(status, msg) ==
    [kind |-> "json", status |-> status, xCache |-> "none",
     error |-> msg, text |-> <<>>]
\* Mutant: the cached text is returned without the X-Cache: HIT tag.
HitResponse_untagged(text) ==
    [kind |-> "text", status |-> 200, xCache |-> "none",
     error |-> "", text |-> text]

HitResponse(text) ==
    [kind |-> "text", status |-> 200, xCache |-> "HIT",
     error |-> "", text |-> text]
StreamResponse ==
    [kind |-> "stream", status |-> 200, xCache |-> "MISS",
     error |-> "", text |-> <<>>]

\* No lookup was made (yet) for the request.
NoLookup == [outcome |-> "none", result |-> CacheMiss]

NoCalls == [createVectorIndex |-> 0, generateEmbedding |-> 0,
            searchSimilarChunks |-> 0, checkCache |-> 0,
            streamChatCompletion |-> 0, storeInCache |-> 0]

Called(f) == [calls EXCEPT ![f] = @ + 1]

ScoredChunk(filename, score, content) ==
    [filename |-> filename, content |-> content, score |-> score]

Chunk(filename, score) == ScoredChunk(filename, score, <<"c">>)

\* What the vector store may hold nearest to a query, by ascending distance.
StoredNearest ==
    { <<>>,
      <<Chunk("a.txt", 10), Chunk("b.txt", 80)>> }

\* searchSimilarChunks: KNN topK, sorted by score ascending
searchSimilarChunks(nearest, topK) ==
    SubSeq(nearest, 1, IF Len(nearest) < topK THEN Len(nearest) ELSE topK)

\* Mutant: the filter drops a score equal to the threshold.
FilterByScore_strict(chunks, s) ==
    SelectSeq(chunks, LAMBDA chunk : chunk.score > s.vectordb.scoreThreshold)

\* allChunks.filter((chunk) => chunk.score >= settings.vectordb.scoreThreshold)
FilterByScore(chunks, s) ==
    SelectSeq(chunks, LAMBDA chunk : chunk.score >= s.vectordb.scoreThreshold)

\* Prompts and contexts are texts: sequences of pieces, a piece being a
\* character or a run of characters that is never taken apart.

\* The context when no chunk passed the filter.
NoDocumentsContext == <<"No relevant documents found in the knowledge base.">>

Decimal(i) == <<"1", "2", "3", "4", "5", "6">>[i]

\* `[Source ${i + 1}: ${chunk.filename}]\n${chunk.content}`
SourceLabel(i, chunk) ==
    <<"[Source ", Decimal(i), ": ", chunk.filename, "]\n">> \o chunk.content

\* .map(label).join('\n\n---\n\n')
RECURSIVE LabeledPassages(_, _)
LabeledPassages(chunks, i) ==
    IF i > Len(chunks) THEN <<>>
    ELSE (IF i > 1 THEN <<"\n\n---\n\n">> ELSE <<>>)
            \o SourceLabel(i, chunks[i]) \o LabeledPassages(chunks, i + 1)

\* The context built from the relevant chunks: the labeled passages in
\* order, or the sentinel.
BuildContext(chunks) ==
    IF Len(chunks) > 0 THEN LabeledPassages(chunks, 1)
    ELSE NoDocumentsContext

\* The prompt templates of DEFAULT_LLM_SETTINGS and the default settings.
systemPromptTemplate ==
    <<"Context from retrieved documents:\n", "{{context}}">>
noDocsPromptTemplate == <<"NO relevant documents were found">>

\* GetSubstitution of String.prototype.replace with a string pattern: in
\* the replacement, $$ stands for $, $& for the match, $` for the text
\* before the match and $' for the text after it.
RECURSIVE GetSubstitution(_, _, _, _)
GetSubstitution(replacement, matched, before, after) ==
    IF replacement = <<>> THEN <<>>
    ELSE IF Head(replacement) = "$" /\ Len(replacement) >= 2
              /\ replacement[2] \in {"$", "&", "`", "'"}
         THEN (CASE replacement[2] = "$" -> <<"$">>
                 [] replacement[2] = "&" -> matched
                 [] replacement[2] = "`" -> before
                 [] replacement[2] = "'" -> after)
              \o GetSubstitution(SubSeq(replacement, 3, Len(replacement)),
                                 matched, before, after)
         ELSE <<Head(replacement)>>
              \o GetSubstitution(Tail(replacement), matched, before, after)

\* str.replace(pattern, replacement) for a string pattern: the first
\* occurrence only.
JsReplace(str, pattern, replacement) ==
    LET at == {i \in 1..Len(str) : str[i] = pattern} IN
    IF at = {} THEN str
    ELSE LET i == CHOOSE k \in at : \A m \in at : k <= m
             before == SubSeq(str, 1, i - 1)
             after == SubSeq(str, i + 1, Len(str))
         IN  before \o GetSubstitution(replacement, <<pattern>>, before, after)
                    \o after

\* The system prompt streamChatCompletion sends for a context.
SystemPrompt(context) ==
    LET noContext == context = NoDocumentsContext IN
    IF noContext THEN noDocsPromptTemplate
    ELSE JsReplace(systemPromptTemplate, "{{context}}", context)

\* createVectorIndex as the orchestrator sees it: it throws when the store
\* cannot be reached, and otherwise leaves the index in place.
createVectorIndex(redis) ==
    IF redis = "down" THEN [threw |-> TRUE,  indexExists |-> indexExists]
    ELSE                   [threw |-> FALSE, indexExists |-> TRUE]

\* Mutant: the outer catch puts String(error) into the payload.
Fail500_detailed ==
    /\ response' = JsonError(500, "String(error)")
    /\ pc' = "done"

\* The outer catch: a generic 500.
Fail500 ==
    /\ response' = JsonError(500, "An error occurred processing your request")
    /\ pc' = "done"

\* Mutant: the lookup is decided by the settings store as it is now.
lookupEnabled_live(s) == currentSettings.langcache.enabled

\* Mutant: the lookup is skipped whatever the settings say.
lookupEnabled_never(s) == FALSE

\* if (settings.langcache.enabled) before the lookup
lookupEnabled(s) == s.langcache.enabled

\* Mutant: the store re-reads the settings store instead of the request's
\* settings.
storeEnabled_live(s) == currentSettings.langcache.enabled

\* if (settings.langcache.enabled) after controller.close()
storeEnabled(s) == s.langcache.enabled

\* new ReadableStream({ start }) and return new Response(stream, MISS):
\* start runs at once and calls streamChatCompletion.
StartStreaming(c) ==
    /\ calls' = [c EXCEPT !.streamChatCompletion = @ + 1]
    /\ stream' = NewStream
    /\ response' = StreamResponse
    /\ genState' = "running"
    /\ pc' = "streaming"

\* request.json(), the messages check and getSettings, up to the await of
\* createVectorIndex.
Receive ==
    /\ pc \in {"idle", "done"}
    /\ \E body \in RequestBodies :
         /\ messages' = body
         /\ IF ~body.hasMessages \/ Len(body.messages) = 0
            THEN /\ response' = JsonError(400, "No messages provided")
                 /\ settings' = defaultSettings
                 /\ pc' = "done"
            ELSE /\ response' = NoResponse
                 /\ settings' = getSettings
                 /\ pc' = "createVectorIndex"
    /\ latestUserMessage' = NoMessage
    /\ allChunks' = <<>>
    /\ relevantChunks' = <<>>
    /\ stream' = NoStream
    /\ forwarded' = <<>>
    /\ fullResponse' = <<>>
    /\ genState' = "none"
    /\ cancelled' = "no"
    /\ cacheResult' = NoLookup
    /\ calls' = NoCalls
    /\ storeArgs' = <<>>
    /\ UNCHANGED <<envVars, lcVars, docVars, ingVars, idxVars, logVars>>

\* createVectorIndex returns or throws; then the latest user message is
\* picked, up to the await of generateEmbedding.
EnsureIndex ==
    /\ pc = "createVectorIndex"
    /\ calls' = Called("createVectorIndex")
    /\ \E redis \in {"up", "down"} :
         LET r == createVectorIndex(redis)
             user == LatestUser(messages.messages)
         IN  /\ indexExists' = r.indexExists
             /\ IF r.threw
                THEN Fail500 /\ UNCHANGED latestUserMessage
                ELSE /\ latestUserMessage' = user
                     /\ IF user = NoMessage
                        THEN /\ response' = JsonError(400, "No user message found")
                             /\ pc' = "done"
                        ELSE /\ pc' = "generateEmbedding"
                             /\ UNCHANGED response
    /\ UNCHANGED <<lcVars, docVars, ingVars, idxVars, logVars, currentSettings, env, langcache, messages, settings,
                   allChunks, relevantChunks, stream, forwarded, fullResponse,
                   genState, cancelled, cacheResult, storeArgs>>

\* generateEmbedding(latestUserMessage.content) returns or throws.
Embed ==
    /\ pc = "generateEmbedding"
    /\ calls' = Called("generateEmbedding")
    /\ \E provider \in {"ok", "error"} :
         IF provider = "error" THEN Fail500
         ELSE pc' = "searchSimilarChunks" /\ UNCHANGED response
    /\ UNCHANGED <<lcVars, docVars, ingVars, idxVars, logVars, envVars, messages, settings, latestUserMessage, allChunks,
                   relevantChunks, stream, forwarded, fullResponse, genState,
                   cancelled, cacheResult, storeArgs>>

\* searchSimilarChunks returns or throws; then the score filter and the
\* context, and either the await of checkCache or, with the cache disabled,
\* the stream.
Search ==
    /\ pc = "searchSimilarChunks"
    /\ \E redis \in {"up", "down"}, nearest \in StoredNearest :
         IF redis = "down"
         THEN /\ Fail500
              /\ calls' = Called("searchSimilarChunks")
              /\ UNCHANGED <<allChunks, relevantChunks, stream, genState>>
         ELSE LET found == searchSimilarChunks(nearest, settings.vectordb.topK)
              IN  /\ allChunks' = found
                  /\ relevantChunks' = FilterByScore(found, settings)
                  /\ IF lookupEnabled(settings)
                     THEN /\ pc' = "checkCache"
                          /\ calls' = Called("searchSimilarChunks")
                          /\ UNCHANGED <<response, stream, genState>>
                     ELSE StartStreaming(Called("searchSimilarChunks"))
    /\ UNCHANGED <<lcVars, docVars, ingVars, idxVars, logVars, envVars, messages, settings, latestUserMessage, forwarded,
                   fullResponse, cancelled, cacheResult, storeArgs>>

\* How a call into the cache module may end for the orchestrator: one of the
\* module's own fetch outcomes, or an exception that escapes the module.
CacheCallOutcomes == FetchOutcomes \cup {"threw"}

\* Mutant: a failed lookup falls through to the outer catch.
CacheCheckCatch_rethrow ==
    /\ Fail500
    /\ calls' = Called("checkCache")
    /\ UNCHANGED <<stream, genState>>

\* catch (cacheError): the failure is logged and the request goes on to the
\* generation.
CacheCheckCatch == StartStreaming(Called("checkCache"))

\* checkCache resolves, or throws into the route's catch; on a hit with a
\* response the cached text is returned, otherwise the stream is set up.
CheckCache ==
    /\ pc = "checkCache"
    /\ \E outcome \in CacheCallOutcomes,
          data \in LangCacheSearch(latestUserMessage.content) :
         IF outcome = "threw"
         THEN /\ cacheResult' = [outcome |-> outcome, result |-> CacheMiss]
              /\ CacheCheckCatch
         ELSE LET result == checkCache(latestUserMessage.content, outcome, data)
              IN  /\ cacheResult' = [outcome |-> outcome, result |-> result]
                  /\ IF result.hit /\ result.response # <<>>
                     THEN /\ response' = HitResponse(result.response)
                          /\ pc' = "done"
                          /\ calls' = Called("checkCache")
                          /\ UNCHANGED <<stream, genState>>
                     ELSE StartStreaming(Called("checkCache"))
    /\ UNCHANGED <<lcVars, docVars, ingVars, idxVars, logVars, envVars, messages, settings, latestUserMessage, allChunks,
                   relevantChunks, forwarded, fullResponse, cancelled,
                   storeArgs>>

\* Mutant: the store sits in a finally block, so it also follows the catch.
StreamCatch_finally ==
    /\ stream' = ControllerError(stream)
    /\ pc' = IF storeEnabled(settings) THEN "storeInCache" ELSE "done"

\* The catch of start(): the error is logged and controller.error(error)
\* is called; nothing follows it.
StreamCatch ==
    /\ stream' = ControllerError(stream)
    /\ pc' = "done"

\* Mutant: the chunk is put in front of what was collected.
AppendChunk_prepend(full, chunk) == chunk \o full

\* fullResponse += chunk
AppendChunk(full, chunk) == full \o chunk

\* The provider delivers one more chunk with content and streamChatCompletion
\* yields it; the loop body appends it to fullResponse and enqueues its
\* encoding.  Where enqueue throws, the for await loop is left, which returns
\* the generator, and the catch runs.
GenNext ==
    /\ pc = "streaming"
    /\ Len(fullResponse) < MaxFragments
    /\ LET chunk == ProviderChunk(Len(fullResponse) + 1) IN
         /\ fullResponse' = AppendChunk(fullResponse, chunk)
         /\ IF CanCloseOrEnqueue(stream)
            THEN /\ stream' = ControllerEnqueue(stream, encode(chunk))
                 /\ forwarded' = Append(forwarded, encode(chunk))
                 /\ UNCHANGED <<genState, pc>>
            ELSE /\ genState' = "returned"
                 /\ StreamCatch
                 /\ UNCHANGED forwarded
    /\ UNCHANGED <<lcVars, docVars, ingVars, idxVars, logVars, envVars, messages, settings, latestUserMessage, allChunks,
                   relevantChunks, response, cancelled, cacheResult, calls,
                   storeArgs>>

\* The provider's stream ends: the loop is done and controller.close() is
\* called; where it does not throw, the store follows if the cache is
\* enabled.
GenEnd ==
    /\ pc = "streaming"
    /\ genState' = "exhausted"
    /\ IF CanCloseOrEnqueue(stream)
       THEN /\ stream' = ControllerClose(stream)
            /\ pc' = IF storeEnabled(settings) THEN "storeInCache" ELSE "done"
       ELSE StreamCatch
    /\ UNCHANGED <<lcVars, docVars, ingVars, idxVars, logVars, envVars, messages, settings, latestUserMessage, allChunks,
                   relevantChunks, response, forwarded, fullResponse,
                   cancelled, cacheResult, calls, storeArgs>>

\* The generation throws, at the completion request or between two chunks.
GenThrow ==
    /\ pc = "streaming"
    /\ genState' = "failed"
    /\ StreamCatch
    /\ UNCHANGED <<lcVars, docVars, ingVars, idxVars, logVars, envVars, messages, settings, latestUserMessage, allChunks,
                   relevantChunks, response, forwarded, fullResponse,
                   cancelled, cacheResult, calls, storeArgs>>

\* Mutant: a failed store falls through to the catch of start().
StoreCatch_rethrow == StreamCatch

\* catch (storeError): the failure is logged; the stream is left as it is.
StoreCatch ==
    /\ pc' = "done"
    /\ UNCHANGED stream

\* await storeInCache(latestUserMessage.content, fullResponse, context): the
\* module swallows its failures, and the route catches what would escape it.
Store ==
    /\ pc = "storeInCache"
    /\ \E outcome \in CacheCallOutcomes :
         /\ outcome = "ok" => HasRoom(latestUserMessage.content, fullResponse)
         /\ storeArgs' = Append(storeArgs,
                [prompt |-> latestUserMessage.content,
                 response |-> fullResponse, outcome |-> outcome])
         /\ IF outcome = "threw"
            THEN /\ StoreCatch
                 /\ UNCHANGED langcache
            ELSE /\ langcache' = storeInCache(latestUserMessage.content,
                                              fullResponse, outcome)
                 /\ pc' = "done"
                 /\ UNCHANGED stream
    /\ calls' = Called("storeInCache")
    /\ UNCHANGED <<lcVars, docVars, ingVars, idxVars, logVars, currentSettings, env, indexExists, messages, settings,
                   latestUserMessage, allChunks, relevantChunks, response,
                   forwarded, fullResponse, genState, cancelled, cacheResult>>

\* The caller reads a chunk of the streamed body.
CallerRead ==
    /\ stream.state = "readable"
    /\ stream.queue # <<>>
    /\ stream' = StreamRead(stream)
    /\ UNCHANGED <<lcVars, docVars, ingVars, idxVars, logVars, envVars, pc, messages, settings, latestUserMessage,
                   allChunks, relevantChunks, response, forwarded,
                   fullResponse, genState, cancelled, cacheResult, calls,
                   storeArgs>>

\* The caller disconnects: the body is cancelled.
CallerCancel ==
    /\ stream.state = "readable"
    /\ stream' = StreamCancel(stream)
    /\ cancelled' = IF pc = "streaming" THEN "streaming" ELSE "late"
    /\ UNCHANGED <<lcVars, docVars, ingVars, idxVars, logVars, envVars, pc, messages, settings, latestUserMessage,
                   allChunks, relevantChunks, response, forwarded,
                   fullResponse, genState, cacheResult, calls, storeArgs>>

----------------------------------------------------------------------------
(* Ingestion: POST /api/ingest (file upload) and POST /api/gdrive (sync) *)

\* A document of a batch: its name, and how many chunks chunkText makes of
\* the text parseDocument extracts from it (none for a text without content).
Document(name, chunks) == [name |-> name, chunks |-> chunks]

\* The batches of at most MaxFiles documents; the i-th document is named i.
Batches ==
    UNION { { [i \in 1..n |-> Document(i, c[i])] :
                c \in [1..n -> 0..MaxChunks] } : n \in 0..MaxFiles }

Fault(step, at) == [step |-> step, at |-> at]
NoFault == Fault("none", 0)

\* What may throw while one document is processed: downloadFile (sync
\* only), parseDocument, generateEmbeddings, or the storeDocumentChunk of
\* the at-th chunk.  A document without chunks is skipped before the
\* embedding call.
Faults(route, file) ==
    {NoFault, Fault("parse", 0)}
      \cup (IF route = "gdrive" THEN {Fault("download", 0)} ELSE {})
      \cup (IF file.chunks > 0
            THEN {Fault("embed", 0)}
                   \cup {Fault("store", j) : j \in 1..file.chunks}
            ELSE {})

\* The document storeDocumentChunk writes for the j-th chunk of a file.
DocumentChunk(file, j) ==
    [filename |-> file.name, chunkIndex |-> j - 1, totalChunks |-> file.chunks]

\* The documents the store loop has written when the fault strikes: all of
\* them without a fault, those before the failing one otherwise.
StoredBefore(file, fault) ==
    IF fault.step = "none" THEN [j \in 1..file.chunks |-> DocumentChunk(file, j)]
    ELSE IF fault.step = "store"
         THEN [j \in 1..(fault.at - 1) |-> DocumentChunk(file, j)]
         ELSE <<>>

Result(file, status) == [filename |-> file.name, status |-> status]

\* The body of the loop over the files, from download or parse to the push
\* on results: what it stored, whether it threw, and the result it pushed.
ProcessFile(file, fault) ==
    [stored |-> StoredBefore(file, fault),
     threw  |-> fault.step # "none",
     result |-> IF file.chunks = 0 THEN Result(file, "skipped")
                ELSE Result(file, "success")]

NoIngestResponse == [status |-> 0, hasResults |-> FALSE, results |-> <<>>]
IngestError(status) == [status |-> status, hasResults |-> FALSE, results |-> <<>>]
IngestResults(rs) == [status |-> 200, hasResults |-> TRUE, results |-> rs]

\* No ingestion run was started, and the vector store holds no document.
InitIngest ==
    /\ ingest = "none"
    /\ ingestPc = "idle"
    /\ files = <<>>
    /\ results = <<>>
    /\ faults = <<>>
    /\ docs = <<>>
    /\ ingestResponse = NoIngestResponse

\* POST /api/ingest up to the loop: the form's files, then createVectorIndex.
IngestPOST ==
    /\ ingestPc = "idle"
    /\ ingest' = "upload"
    /\ \E batch \in Batches, redis \in {"up", "down"} :
         /\ files' = batch
         /\ IF batch = <<>>
            THEN /\ ingestResponse' = IngestError(400)
                 /\ ingestPc' = "done"
                 /\ UNCHANGED indexExists
            ELSE LET r == createVectorIndex(redis)
                 IN  /\ indexExists' = r.indexExists
                     /\ IF r.threw
                        THEN /\ ingestResponse' = IngestError(500)
                             /\ ingestPc' = "done"
                        ELSE /\ ingestPc' = "files"
                             /\ UNCHANGED ingestResponse
    /\ UNCHANGED <<results, faults, docs, currentSettings, env, langcache,
                   reqVars, lcVars, docVars, idxVars, logVars>>

\* One turn of the upload loop.  Nothing catches inside the loop: what a
\* file throws reaches the outer catch, which answers 500 without results.
IngestFile ==
    /\ ingest = "upload"
    /\ ingestPc = "files"
    /\ LET file == files[Len(faults) + 1] IN
       \E fault \in Faults("upload", file) :
         LET r == ProcessFile(file, fault) IN
         /\ faults' = Append(faults, fault)
         /\ docs' = docs \o r.stored
         /\ IF r.threw
            THEN /\ ingestResponse' = IngestError(500)
                 /\ ingestPc' = "done"
                 /\ UNCHANGED results
            ELSE /\ results' = Append(results, r.result)
                 /\ IF Len(faults') = Len(files)
                    THEN /\ ingestResponse' = IngestResults(results')
                         /\ ingestPc' = "done"
                    ELSE UNCHANGED <<ingestResponse, ingestPc>>
    /\ UNCHANGED <<ingest, files, envVars, reqVars, lcVars, docVars, idxVars,
                   logVars>>

\* POST /api/gdrive up to the loop: createVectorIndex, then the listing of
\* the folder.
GdrivePOST ==
    /\ ingestPc = "idle"
    /\ ingest' = "gdrive"
    /\ \E batch \in Batches, redis \in {"up", "down"}, listed \in BOOLEAN :
         LET r == createVectorIndex(redis) IN
         /\ indexExists' = r.indexExists
         /\ IF r.threw \/ ~listed
            THEN /\ ingestResponse' = IngestError(500)
                 /\ ingestPc' = "done"
                 /\ UNCHANGED files
            ELSE /\ files' = batch
                 /\ IF batch = <<>>
                    THEN /\ ingestResponse' = IngestResults(<<>>)
                         /\ ingestPc' = "done"
                    ELSE /\ ingestPc' = "files"
                         /\ UNCHANGED ingestResponse
    /\ UNCHANGED <<results, faults, docs, currentSettings, env, langcache,
                   reqVars, lcVars, docVars, idxVars, logVars>>

\* One turn of the sync loop, with its try and catch (fileError).
GdriveFile ==
    /\ ingest = "gdrive"
    /\ ingestPc = "files"
    /\ LET file == files[Len(faults) + 1] IN
       \E fault \in Faults("gdrive", file) :
         LET r == ProcessFile(file, fault) IN
         /\ faults' = Append(faults, fault)
         /\ docs' = docs \o r.stored
         /\ results' = Append(results, IF r.threw THEN Result(file, "error")
                                       ELSE r.result)
         /\ IF Len(faults') = Len(files)
            THEN /\ ingestResponse' = IngestResults(results')
                 /\ ingestPc' = "done"
            ELSE UNCHANGED <<ingestResponse, ingestPc>>
    /\ UNCHANGED <<ingest, files, envVars, reqVars, lcVars, docVars, idxVars,
                   logVars>>

\* No createVectorIndex call is in flight.
InitIndexCalls ==
    /\ callers = [c \in {} |-> "idle"]
    /\ ftCreates = 0

\* The logger as loaded.
InitLogger ==
    /\ logs = <<>>
    /\ added = <<>>
    /\ clears = 0

----------------------------------------------------------------------------
(* createVectorIndex, command by command, for concurrent callers *)

Callers == 1..MaxCallers

\* A call of createVectorIndex: where it is suspended, whether the index
\* existed when it began, whether the store answered all its commands so
\* far, and how many calls this caller has begun.
IndexCall(at, existed, answered, n) ==
    [pc |-> at, existed |-> existed, answered |-> answered, n |-> n]

NotCalling == IndexCall("idle", FALSE, TRUE, 0)

\* Mutant: FT.INFO is taken to fail whether the index exists or not.
InfoResolves_never(answered) == FALSE

\* await redis.ft.info(INDEX_NAME) resolves when the store answers and the
\* index exists; it rejects for an unknown index and for a lost connection.
InfoResolves(answered) == answered /\ indexExists

\* await redis.ft.create(...) resolves when the store answers and no index
\* of that name exists; FT.CREATE on an existing index is an error reply.
CreateResolves(answered) == answered /\ ~indexExists

\* createVectorIndex() up to its first command: getRedisClient returns the
\* client or throws.
CallCreateVectorIndex(c) ==
    /\ callers[c].pc \in {"idle", "resolved", "rejected"}
    /\ callers[c].n < MaxIndexCalls
    /\ \E connected \in BOOLEAN :
         callers' = [callers EXCEPT ![c] =
                        IndexCall(IF connected THEN "ft.info" ELSE "rejected",
                                  indexExists, connected, @.n + 1)]
    /\ UNCHANGED <<ftCreates, envVars, reqVars, lcVars, docVars, ingVars,
                   logVars>>

\* FT.INFO is answered or fails: the try block ends, or the bare catch
\* sends FT.CREATE.
FtInfo(c) ==
    /\ callers[c].pc = "ft.info"
    /\ \E answered \in BOOLEAN :
         callers' = [callers EXCEPT ![c] =
                        [@ EXCEPT !.pc = IF InfoResolves(answered)
                                         THEN "resolved" ELSE "ft.create",
                                  !.answered = @ /\ answered]]
    /\ UNCHANGED <<ftCreates, envVars, reqVars, lcVars, docVars, ingVars,
                   logVars>>

\* FT.CREATE is answered or fails; nothing catches its rejection.
FtCreate(c) ==
    /\ callers[c].pc = "ft.create"
    /\ \E answered \in BOOLEAN :
         /\ callers' = [callers EXCEPT ![c] =
                          [@ EXCEPT !.pc = IF CreateResolves(answered)
                                           THEN "resolved" ELSE "rejected",
                                    !.answered = @ /\ answered]]
         /\ IF CreateResolves(answered)
            THEN indexExists' = TRUE /\ ftCreates' = ftCreates + 1
            ELSE UNCHANGED <<indexExists, ftCreates>>
    /\ UNCHANGED <<currentSettings, env, langcache, reqVars, lcVars, docVars,
                   ingVars, logVars>>

----------------------------------------------------------------------------
(* The administrative interface of the settings: /api/settings *)

\* The JSON bodies a client may post.  The route hands the parsed body to
\* updateSettings as it is: nothing checks a type or a range.
VectordbPatches ==
    { Absent, [topK |-> 3], [topK |-> 0], [scoreThreshold |-> 100],
      [scoreThreshold |-> 150], [topK |-> -1, scoreThreshold |-> -10] }

LangcachePatches ==
    { Absent, [enabled |-> FALSE], [similarityThreshold |-> 50],
      [similarityThreshold |-> 0], [similarityThreshold |-> 120] }

SettingsBodies == [vectordb : VectordbPatches, langcache : LangcachePatches]

\* POST /api/settings: a body that is not JSON is answered 400 from the
\* catch and changes nothing; any other body is merged into the settings.
SettingsPOST ==
    /\ \E parsed \in BOOLEAN, body \in SettingsBodies :
         currentSettings' = IF parsed THEN updateSettings(body)
                            ELSE currentSettings
    /\ UNCHANGED <<env, langcache, indexExists, reqVars, lcVars, docVars,
                   ingVars, idxVars, logVars>>

\* DELETE /api/settings
SettingsDELETE ==
    /\ currentSettings' = resetSettings
    /\ UNCHANGED <<env, langcache, indexExists, reqVars, lcVars, docVars,
                   ingVars, idxVars, logVars>>

----------------------------------------------------------------------------
(* The logger: the in-memory log *)

MAX_LOGS == 500

Categories == <<"cache", "retrieval", "llm", "gdrive", "system">>

\* The n-th entry added after the c-th clearLogs: its id is unique, and the
\* categories come round in turn.
LogEntry(c, n) ==
    [id |-> <<c, n>>, category |-> Categories[(n % Len(Categories)) + 1]]

\* Mutant: the newest entry is dropped when the log is full.
addLog_pop(entry) ==
    LET pushed == Append(logs, entry) IN
    IF Len(pushed) > MAX_LOGS THEN SubSeq(pushed, 1, Len(pushed) - 1)
    ELSE pushed

\* addLog: logs.push(entry), then logs.shift() when more than MAX_LOGS.
addLog(entry) ==
    LET pushed == Append(logs, entry) IN
    IF Len(pushed) > MAX_LOGS THEN Tail(pushed) ELSE pushed

\* getLogs(limit, category): a copy, filtered by the category if one is
\* given (""), then cut to its last limit entries if a limit is given (0).
getLogs(limit, category) ==
    LET result == IF category # ""
                  THEN SelectSeq(logs, LAMBDA log : log.category = category)
                  ELSE logs
    IN  IF limit # 0
        THEN SubSeq(result, IF limit >= Len(result) THEN 1
                            ELSE Len(result) - limit + 1, Len(result))
        ELSE result

\* clearLogs: logs.length = 0
clearLogs == <<>>

AddLog ==
    /\ Len(added) < MaxAdded
    /\ LET entry == LogEntry(clears, Len(added) + 1) IN
         /\ logs' = addLog(entry)
         /\ added' = Append(added, entry)
    /\ UNCHANGED <<clears, envVars, reqVars, lcVars, docVars, ingVars, idxVars>>

ClearLogs ==
    /\ clears < MaxClears
    /\ logs' = clearLogs
    /\ added' = <<>>
    /\ clears' = clears + 1
    /\ UNCHANGED <<envVars, reqVars, lcVars, docVars, ingVars, idxVars>>

----------------------------------------------------------------------------
(* The chat orchestrator with the settings store and the cache service *)

InitialEntries == {Entry("q1", <<97>>)}

\* The chat request before any request arrived.
InitRequest ==
    /\ pc = "idle"
    /\ messages = [hasMessages |-> FALSE, messages |-> <<>>]
    /\ settings = defaultSettings
    /\ latestUserMessage = NoMessage
    /\ allChunks = <<>>
    /\ relevantChunks = <<>>
    /\ response = NoResponse
    /\ stream = NoStream
    /\ forwarded = <<>>
    /\ fullResponse = <<>>
    /\ genState = "none"
    /\ cancelled = "no"
    /\ cacheResult = NoLookup
    /\ calls = NoCalls
    /\ storeArgs = <<>>

\* No chunkText call was made.
InitDocumentLoader ==
    /\ chunkArgs = NoChunkArgs
    /\ chunkResult = NotChunked

\* The langcache module as loaded, on an empty Redis.
InitLangCacheModule ==
    /\ config = [distanceThreshold |-> DEFAULT_DISTANCE_THRESHOLD,
                 ttl |-> DEFAULT_TTL]
    /\ cacheKeys = {}
    /\ cacheIndexExists = FALSE
    /\ lcResult = NoCheck
    /\ lastStored = NothingStored

Init ==
    /\ currentSettings = defaultSettings
    /\ env \in [langcache : BOOLEAN]
    /\ langcache \in SUBSET InitialEntries
    /\ indexExists = FALSE
    /\ InitRequest
    /\ InitLangCacheModule
    /\ InitDocumentLoader
    /\ InitIngest
    /\ InitIndexCalls
    /\ InitLogger

Next ==
    \/ UpdateSettings
    \/ ResetSettings
    \/ ClearCache
    \/ Receive
    \/ EnsureIndex
    \/ Embed
    \/ Search
    \/ CheckCache
    \/ GenNext
    \/ GenEnd
    \/ GenThrow
    \/ Store
    \/ CallerRead
    \/ CallerCancel

Spec == Init /\ [][Next]_vars

\* The steps of a request that the handler itself takes: each awaited call
\* returns or throws, and the provider's stream yields, ends or fails.
HandlerStep ==
    \/ EnsureIndex
    \/ Embed
    \/ Search
    \/ CheckCache
    \/ GenNext
    \/ GenEnd
    \/ GenThrow
    \/ Store

\* The orchestrator where no awaited call hangs for ever.
SpecLive == Spec /\ WF_vars(HandlerStep)

----------------------------------------------------------------------------
(* Retrieval and the score filter over all rankings and settings *)

\* Scores the store may return and thresholds the settings may hold.
Scores == {0, 10, 50, 100}

Filenames == <<"a.txt", "b.txt", "c.txt", "d.txt", "e.txt">>

\* What a chunk may read: plain text, and text with a dollar sign before
\* another dollar sign, an ampersand or a quote.
Contents == { <<"c">>, <<"$", "$", "5">>, <<"R", "$", "&", "D">>,
              <<"$", "'">> }

\* The rankings of at most MaxStored chunks, by ascending score.
RankedLists ==
    UNION { { [i \in 1..n |-> ScoredChunk(Filenames[i], sc[i], ct[i])] :
                sc \in {f \in [1..n -> Scores] :
                           \A i \in 1..(n - 1) : f[i] <= f[i + 1]},
                ct \in [1..n -> Contents] }
            : n \in 0..MaxStored }

\* The retrieval settings a request may have read.
RetrievalSettings ==
    { [defaultSettings EXCEPT !.vectordb =
                                 [topK |-> k, scoreThreshold |-> t],
                              !.langcache.enabled = e] :
        k \in 1..MaxTopK, t \in Scores, e \in BOOLEAN }

\* A request with a user message that is about to search.
InitRetrieval ==
    /\ currentSettings \in RetrievalSettings
    /\ env = [langcache |-> FALSE]
    /\ langcache = {}
    /\ indexExists = TRUE
    /\ InitLangCacheModule
    /\ InitDocumentLoader
    /\ InitIngest
    /\ InitIndexCalls
    /\ InitLogger
    /\ pc = "searchSimilarChunks"
    /\ messages = [hasMessages |-> TRUE, messages |-> <<Msg("user", "q1")>>]
    /\ settings = currentSettings
    /\ latestUserMessage = Msg("user", "q1")
    /\ allChunks = <<>>
    /\ relevantChunks = <<>>
    /\ response = NoResponse
    /\ stream = NoStream
    /\ forwarded = <<>>
    /\ fullResponse = <<>>
    /\ genState = "none"
    /\ cancelled = "no"
    /\ cacheResult = NoLookup
    /\ calls = [NoCalls EXCEPT !.createVectorIndex = 1,
                               !.generateEmbedding = 1]
    /\ storeArgs = <<>>

\* searchSimilarChunks returns or throws, then the score filter: the step
\* Search, over every ranking.
Retrieve ==
    /\ pc = "searchSimilarChunks"
    /\ \E redis \in {"up", "down"}, nearest \in RankedLists :
         IF redis = "down"
         THEN /\ Fail500
              /\ calls' = Called("searchSimilarChunks")
              /\ UNCHANGED <<allChunks, relevantChunks, stream, genState>>
         ELSE LET found == searchSimilarChunks(nearest, settings.vectordb.topK)
              IN  /\ allChunks' = found
                  /\ relevantChunks' = FilterByScore(found, settings)
                  /\ IF lookupEnabled(settings)
                     THEN /\ pc' = "checkCache"
                          /\ calls' = Called("searchSimilarChunks")
                          /\ UNCHANGED <<response, stream, genState>>
                     ELSE StartStreaming(Called("searchSimilarChunks"))
    /\ UNCHANGED <<lcVars, docVars, ingVars, idxVars, logVars, envVars, messages, settings, latestUserMessage, forwarded,
                   fullResponse, cancelled, cacheResult, storeArgs>>

NextRetrieval == Retrieve

SpecRetrieval == InitRetrieval /\ [][NextRetrieval]_vars

----------------------------------------------------------------------------
(* chunkText over all short texts *)

Chars == {"a", "b", " ", "."}

\* The texts of at most MaxTextLen characters.
Texts == UNION { [1..n -> Chars] : n \in 0..MaxTextLen }

\* Chunk sizes and overlaps the loader may be called with.
ChunkSizes == {2, 4, 1000}
Overlaps == {0, 1, 3, 200}

InitChunk ==
    /\ currentSettings = defaultSettings
    /\ env = [langcache |-> FALSE]
    /\ langcache = {}
    /\ indexExists = FALSE
    /\ InitRequest
    /\ InitLangCacheModule
    /\ chunkArgs \in [text : Texts, chunkSize : ChunkSizes, overlap : Overlaps]
    /\ chunkResult = NotChunked
    /\ InitIngest
    /\ InitIndexCalls
    /\ InitLogger

NextChunk == ChunkText

SpecChunk == InitChunk /\ [][NextChunk]_vars

----------------------------------------------------------------------------
(* One ingestion run over all small batches *)

InitIngestRun ==
    /\ currentSettings = defaultSettings
    /\ env = [langcache |-> FALSE]
    /\ langcache = {}
    /\ indexExists \in BOOLEAN
    /\ InitRequest
    /\ InitLangCacheModule
    /\ InitDocumentLoader
    /\ InitIngest
    /\ InitIndexCalls
    /\ InitLogger

NextIngest ==
    \/ IngestPOST
    \/ IngestFile
    \/ GdrivePOST
    \/ GdriveFile

SpecIngest == InitIngestRun /\ [][NextIngest]_vars

----------------------------------------------------------------------------
(* Concurrent createVectorIndex calls on a store with or without the index *)

InitIndex ==
    /\ currentSettings = defaultSettings
    /\ env = [langcache |-> FALSE]
    /\ langcache = {}
    /\ indexExists \in BOOLEAN
    /\ InitRequest
    /\ InitLangCacheModule
    /\ InitDocumentLoader
    /\ InitIngest
    /\ callers = [c \in Callers |-> NotCalling]
    /\ ftCreates = 0
    /\ InitLogger

NextIndex ==
    \E c \in Callers :
        \/ CallCreateVectorIndex(c)
        \/ FtInfo(c)
        \/ FtCreate(c)

SpecIndex == InitIndex /\ [][NextIndex]_vars

----------------------------------------------------------------------------
(* The settings store under its administrative interface *)

InitSettings ==
    /\ currentSettings = defaultSettings
    /\ env = [langcache |-> FALSE]
    /\ langcache = {}
    /\ indexExists = FALSE
    /\ InitRequest
    /\ InitLangCacheModule
    /\ InitDocumentLoader
    /\ InitIngest
    /\ InitIndexCalls
    /\ InitLogger

NextSettings ==
    \/ SettingsPOST
    \/ SettingsDELETE

SpecSettings == InitSettings /\ [][NextSettings]_vars

----------------------------------------------------------------------------
(* The logger under addLog and clearLogs *)

InitLog ==
    /\ currentSettings = defaultSettings
    /\ env = [langcache |-> FALSE]
    /\ langcache = {}
    /\ indexExists = FALSE
    /\ InitRequest
    /\ InitLangCacheModule
    /\ InitDocumentLoader
    /\ InitIngest
    /\ InitIndexCalls
    /\ InitLogger

NextLog ==
    \/ AddLog
    \/ ClearLogs

SpecLog == InitLog /\ [][NextLog]_vars

----------------------------------------------------------------------------
(* The langcache module with the settings store *)

\* What Redis may hold under langcache: when the module is loaded.
InitialKeys == {CacheKey("q1", <<97>>, FALSE), CacheKey("q2", <<233>>, TRUE)}

InitCache ==
    /\ currentSettings = defaultSettings
    /\ env = [langcache |-> FALSE]
    /\ langcache = {}
    /\ indexExists = FALSE
    /\ InitRequest
    /\ config = [distanceThreshold |-> DEFAULT_DISTANCE_THRESHOLD,
                 ttl |-> DEFAULT_TTL]
    /\ cacheKeys \in SUBSET InitialKeys
    /\ cacheIndexExists = (cacheKeys # {})
    /\ lcResult = NoCheck
    /\ lastStored = NothingStored
    /\ InitDocumentLoader
    /\ InitIngest
    /\ InitIndexCalls
    /\ InitLogger

NextCache ==
    \/ UpdateSettings
    \/ ResetSettings
    \/ SetLangCacheConfig
    \/ LCStore
    \/ LCCheck
    \/ LCExpire
    \/ LCClear

SpecCache == InitCache /\ [][NextCache]_vars

----------------------------------------------------------------------------
(* Properties of the chat orchestrator (Spec) *)

\* content is the content of the last message with role user of the request.
IsLatestUserContent(content) ==
    LET msgs == messages.messages
    IN  \E i \in 1..Len(msgs) :
           /\ msgs[i].role = "user"
           /\ msgs[i].content = content
           /\ \A j \in (i + 1)..Len(msgs) : msgs[j].role # "user"

\* The text the caller was sent: the decoding of the chunks forwarded.
ForwardedText == decode(Concat(forwarded))

\* C1: when the generation throws, after any number of forwarded fragments,
\* the request ends there, storeInCache is not called for it, and the stream
\* is errored (it is already closed where the caller had cancelled it).
C1_NoStoreOnStreamError ==
    genState = "failed" =>
        /\ pc = "done"
        /\ calls.storeInCache = 0
        /\ storeArgs = <<>>
        /\ stream.state = IF cancelled = "no" THEN "errored" ELSE "closed"

C1_Witness ==
    /\ genState = "failed"
    /\ settings.langcache.enabled
    /\ forwarded # <<>>
    /\ stream.state = "errored"

\* C2 as claimed: whenever the generation completed without error and the
\* cache is enabled, the request ends with exactly one storeInCache call,
\* for the latest user message and the text of the forwarded fragments.
C2_StoreOnceOnCompletion ==
    (pc = "done" /\ genState = "exhausted" /\ settings.langcache.enabled) =>
        /\ calls.storeInCache = 1
        /\ Len(storeArgs) = 1
        /\ IsLatestUserContent(storeArgs[1].prompt)
        /\ storeArgs[1].response = ForwardedText

\* C2 amended: the same, for requests whose caller did not cancel the
\* response while it was streaming; and the store starts only after the
\* stream was closed behind the last forwarded fragment.
C2_StoreOnceUnlessCancelled ==
    /\ (pc = "done" /\ genState = "exhausted" /\ settings.langcache.enabled
          /\ cancelled # "streaming") =>
            /\ calls.storeInCache = 1
            /\ Len(storeArgs) = 1
            /\ IsLatestUserContent(storeArgs[1].prompt)
            /\ storeArgs[1].response = ForwardedText
    /\ pc = "storeInCache" =>
            /\ genState = "exhausted"
            /\ stream.closeRequested
            /\ calls.storeInCache = 0
            /\ fullResponse = ForwardedText

C2_Witness ==
    /\ pc = "done"
    /\ genState = "exhausted"
    /\ cancelled = "no"
    /\ calls.storeInCache = 1
    /\ Len(forwarded) >= 2
    /\ latestUserMessage.content = "q2"

\* C3: a request that read langcache.enabled = false makes no checkCache and
\* no storeInCache call, whatever the cache holds and however the generation
\* ends.
C3_DisabledNeverTouchesCache ==
    ~settings.langcache.enabled =>
        /\ calls.checkCache = 0
        /\ calls.storeInCache = 0
        /\ pc \notin {"checkCache", "storeInCache"}
        /\ cacheResult = NoLookup
        /\ storeArgs = <<>>

C3_Witness ==
    /\ ~settings.langcache.enabled
    /\ currentSettings.langcache.enabled
    /\ langcache # {}
    /\ pc = "done"
    /\ genState = "exhausted"

\* C4: a lookup that hits ends the request with the cached text as a plain
\* body tagged X-Cache: HIT, without generation and without store; a response
\* carries the HIT tag only then, and every generated response is a stream
\* tagged X-Cache: MISS.
C4_HitSkipsGeneration ==
    /\ cacheResult.result.hit =>
          /\ pc = "done"
          /\ response.kind = "text"
          /\ response.status = 200
          /\ response.xCache = "HIT"
          /\ response.text = cacheResult.result.response
          /\ calls.streamChatCompletion = 0
          /\ calls.storeInCache = 0
          /\ genState = "none"
          /\ stream = NoStream
    /\ response.xCache = "HIT" => cacheResult.result.hit
    /\ calls.streamChatCompletion > 0 =>
          /\ response.kind = "stream"
          /\ response.xCache = "MISS"

C4_Witness ==
    /\ cacheResult.result.hit
    /\ response.xCache = "HIT"
    /\ response.text # <<>>

\* The lookup of the request failed: the service answered with a non-OK
\* status, the fetch failed, the configuration is missing, or checkCache
\* threw.
LookupFailed ==
    \/ cacheResult.outcome \in {"notOk", "networkError", "threw"}
    \/ cacheResult.outcome = "ok" /\ getConfigThrows

\* C5: a failed lookup is a miss: the request is not aborted, it goes on to
\* the generation and answers with the stream.
C5_LookupFailureIsMiss ==
    LookupFailed =>
        /\ ~cacheResult.result.hit
        /\ calls.streamChatCompletion = 1
        /\ response.kind = "stream"
        /\ response.status = 200
        /\ genState # "none"

C5_Witness ==
    /\ cacheResult.outcome = "networkError"
    /\ \E e \in langcache : e.prompt = latestUserMessage.content
    /\ pc = "done"
    /\ genState = "exhausted"
    /\ ForwardedText = fullResponse
    /\ fullResponse # <<>>

\* C6: the store is attempted only after controller.close(), and however it
\* ends the stream is not errored and the response stays the complete text.
C6_StoreFailureInvisible ==
    /\ pc = "storeInCache" =>
          /\ stream.closeRequested
          /\ stream.state # "errored"
    /\ calls.storeInCache > 0 =>
          /\ pc = "done"
          /\ stream.closeRequested
          /\ stream.state # "errored"
          /\ response.kind = "stream"
          /\ response.status = 200
          /\ cancelled = "no" =>
                decode(Concat(stream.delivered \o stream.queue)) = fullResponse

C6_Witness ==
    /\ calls.storeInCache = 1
    /\ storeArgs[1].outcome \in {"notOk", "networkError", "threw"}
    /\ stream.state = "closed"
    /\ fullResponse # <<>>
    /\ decode(Concat(stream.delivered)) = fullResponse

\* C7: once the caller has cancelled the response while it was streaming, no
\* further fragment is forwarded, the first fragment that arrives afterwards
\* returns the generator and ends the request, and storeInCache is not
\* called.
C7_CancelStopsGenerationAndStore ==
    cancelled = "streaming" =>
        /\ calls.storeInCache = 0
        /\ pc \in {"streaming", "done"}
        /\ pc = "done" => genState # "running"
        /\ Len(fullResponse) <= Len(ForwardedText) + 1
        /\ Len(fullResponse) > Len(ForwardedText) =>
              (genState = "returned" /\ pc = "done")

C7_Witness ==
    /\ cancelled = "streaming"
    /\ genState = "returned"
    /\ forwarded # <<>>
    /\ settings.langcache.enabled

----------------------------------------------------------------------------
(* Properties of the langcache module (SpecCache) *)

\* The last checkCache call reached Redis and the search returned a document.
LookupFound == lcResult.outcome = "ok" /\ lcResult.found

\* similarityThreshold (a cosine similarity) as a cosine distance
AsDistance(similarityThreshold) == 100 - similarityThreshold

\* C8: the hit decision follows CacheSettings.similarityThreshold: a lookup
\* reports a hit only if the distance of the nearest cached prompt is at
\* most the similarity threshold of the settings store, converted to a
\* distance.
C8_HitFollowsSimilarityThreshold ==
    (LookupFound /\ lcResult.hit)
        => lcResult.distance <= AsDistance(lcResult.similarityThreshold)

\* C9: for every configured distance threshold t, t = 0 included, checkCache
\* reports a hit when the distance of the nearest entry is t or less and a
\* miss when it is greater than t.
C9_InclusiveBoundaryAtEveryThreshold ==
    LookupFound
        => (lcResult.hit <=> lcResult.distance <= config.distanceThreshold)

\* A storeInCache(p, r) with non-empty r stored its document, the document
\* has not expired, and a checkCache(p) with the identical prompt followed
\* and reached Redis.
RoundTrip ==
    /\ lastStored # NothingStored
    /\ lastStored.response # <<>>
    /\ \E e \in cacheKeys : /\ e.prompt = lastStored.prompt
                            /\ e.response = lastStored.response
    /\ lcResult.outcome = "ok"
    /\ lcResult.prompt = lastStored.prompt

\* No other document for the identical prompt holds another response.
NoOtherResponse ==
    \A e \in cacheKeys :
        Dist(e.prompt, lastStored.prompt) = 0
            => e.response = lastStored.response

\* C10 as stated, read in favour of the claim (lookups that fail are left
\* out): after storeInCache(p, r) succeeded, a following checkCache(p),
\* before the entry expires, returns hit = true with response r, for any
\* prior contents of the cache.
C10_RoundTrip ==
    RoundTrip
        => lcResult.hit /\ lcResult.response = lastStored.response

\* C10, amended: after storeInCache(p, r) succeeded, a following
\* checkCache(p) that does not fail, before the entry expires and under a
\* distance threshold that is not negative, returns hit = true with
\* response r, provided that no other unexpired entry for the identical
\* prompt holds a response different from r.
C10_RoundTripUnlessDuplicate ==
    (RoundTrip /\ NoOtherResponse /\ config.distanceThreshold >= 0)
        => lcResult.hit /\ lcResult.response = lastStored.response

\* A round trip over prior contents: the stored entry is returned while
\* the cache also holds an entry for another prompt.
C10_Witness ==
    /\ RoundTrip
    /\ NoOtherResponse
    /\ config.distanceThreshold >= 0
    /\ \E e \in cacheKeys : e.prompt # lastStored.prompt
    /\ lcResult.hit
    /\ lcResult.response = lastStored.response

----------------------------------------------------------------------------
(* Further properties of the chat orchestrator (Spec) *)

\* C11: the cache lookup and the cache store are keyed on the latest user
\* message only: whatever passages were retrieved and whatever the earlier
\* messages are, the result of a lookup is the one the cache gives for the
\* latest user message (for the way the fetch ended and the entry the
\* service returned), a hit answers with that entry's response, and a store
\* files the response under the latest user message.
C11_KeyedOnLatestUserMessage ==
    [][ /\ (CheckCache /\ cacheResult'.outcome # "threw") =>
            \E content \in Prompts :
               /\ IsLatestUserContent(content)
               /\ \E data \in LangCacheSearch(content) :
                     cacheResult'.result =
                         checkCache(content, cacheResult'.outcome, data)
               /\ response'.xCache = "HIT" =>
                     response'.text = cacheResult'.result.response
        /\ Store => IsLatestUserContent(storeArgs'[Len(storeArgs')].prompt)
      ]_vars

\* A hit for a request with earlier messages and retrieved passages.
C11_Witness ==
    /\ response.xCache = "HIT"
    /\ cacheResult.result.hit
    /\ Len(messages.messages) > 1
    /\ relevantChunks # <<>>
    /\ IsLatestUserContent(latestUserMessage.content)

\* The message list of the request is missing or empty, or holds no message
\* with role "user".
InvalidInput ==
    \/ ~messages.hasMessages
    \/ Len(messages.messages) = 0
    \/ \A i \in 1..Len(messages.messages) : messages.messages[i].role # "user"

\* C12: a chat request whose message list is missing or empty, or contains
\* no message with role "user", is rejected with a 400 response and never
\* reaches embedding, vector search, cache lookup, generation or cache
\* store.
C12_InvalidInputRejected ==
    (pc # "idle" /\ InvalidInput) =>
        /\ pc = "done" => response.status = 400
        /\ calls.generateEmbedding = 0
        /\ calls.searchSimilarChunks = 0
        /\ calls.checkCache = 0
        /\ calls.streamChatCompletion = 0
        /\ calls.storeInCache = 0

\* The request ended in generateEmbedding, in searchSimilarChunks, in the
\* generation.
EmbeddingFailed ==
    pc = "done" /\ calls.generateEmbedding = 1 /\ calls.searchSimilarChunks = 0
SearchFailed ==
    /\ pc = "done"
    /\ calls.searchSimilarChunks = 1
    /\ calls.checkCache = 0
    /\ calls.streamChatCompletion = 0
GenerationFailed == genState = "failed"

\* A 5xx response whose payload is the generic message.
GenericFailure ==
    /\ response.kind = "json"
    /\ response.status >= 500
    /\ response.error = "An error occurred processing your request"
    /\ response.text = <<>>

\* C13 as stated: if the embedding call, the vector search or the
\* generation call fails, the request is aborted and answered with a 5xx
\* failure whose payload is a generic error message.
C13_FailuresAre5xxGeneric ==
    (EmbeddingFailed \/ SearchFailed \/ GenerationFailed) =>
        pc = "done" /\ GenericFailure

\* C13, amended: a failing embedding call or vector search aborts the
\* request with a 5xx response whose payload is the generic message, and
\* nothing later is called; a failing generation aborts the request after
\* the response was started with status 200 and X-Cache: MISS, by
\* terminating the stream with an error (unless the caller had cancelled
\* it), with no error payload.
C13_FailuresAbortTheRequest ==
    /\ (EmbeddingFailed \/ SearchFailed) =>
          /\ GenericFailure
          /\ stream = NoStream
          /\ calls.checkCache = 0
          /\ calls.streamChatCompletion = 0
          /\ calls.storeInCache = 0
    /\ GenerationFailed =>
          /\ pc = "done"
          /\ response = StreamResponse
          /\ stream.state = IF cancelled = "no" THEN "errored" ELSE "closed"
          /\ stream.queue = <<>>
          /\ calls.storeInCache = 0

\* A vector search that failed after the embedding was made.
C13_Witness ==
    /\ SearchFailed
    /\ calls.generateEmbedding = 1
    /\ GenericFailure

\* The steps of a request in their order, and the calls made when the
\* request is at a step: the earlier ones once, the later ones not yet.
StepOrder == <<"createVectorIndex", "generateEmbedding", "searchSimilarChunks",
               "checkCache", "streamChatCompletion", "storeInCache">>

StepsInOrder ==
    /\ \A i \in 1..Len(StepOrder) : calls[StepOrder[i]] \in {0, 1}
    /\ \A i \in 1..Len(StepOrder) :
          pc = StepOrder[i] /\ pc # "streamChatCompletion" =>
              /\ \A j \in i..Len(StepOrder) : calls[StepOrder[j]] = 0
              /\ \A j \in 1..(i - 1) :
                    calls[StepOrder[j]] =
                        IF StepOrder[j] = "checkCache"
                        THEN (IF settings.langcache.enabled THEN 1 ELSE 0)
                        ELSE 1
    /\ calls.generateEmbedding = 1 => calls.createVectorIndex = 1
    /\ calls.searchSimilarChunks = 1 => calls.generateEmbedding = 1
    /\ calls.checkCache = 1 =>
          calls.searchSimilarChunks = 1 /\ settings.langcache.enabled
    /\ calls.streamChatCompletion = 1 =>
          /\ calls.searchSimilarChunks = 1
          /\ calls.checkCache = IF settings.langcache.enabled THEN 1 ELSE 0
          /\ ~(cacheResult.result.hit /\ cacheResult.result.response # <<>>)
          /\ response = StreamResponse
    /\ calls.storeInCache = 1 =>
          /\ calls.streamChatCompletion = 1
          /\ genState = "exhausted"
          /\ stream.closeRequested
    /\ pc = "streaming" => calls.streamChatCompletion = 1 /\ calls.storeInCache = 0

\* The terminal outcomes of a request.
Rejected      == response.kind = "json" /\ response.status = 400
Failed        == response.kind = "json" /\ response.status = 500
HitResponded  == response.kind = "text" /\ response.xCache = "HIT"
StreamClosed  == /\ response.kind = "stream"
                 /\ stream.closeRequested \/ stream.state = "closed"
StreamErrored == response.kind = "stream" /\ stream.state = "errored"

Outcomes == <<Rejected, Failed, HitResponded, StreamClosed, StreamErrored>>

ExactlyOneOutcome ==
    Cardinality({i \in 1..Len(Outcomes) : Outcomes[i]}) = 1

InFlight == pc \notin {"idle", "done"}

\* C14: every request takes its steps in the order index, embedding, search
\* (with the filter), cache check, then either the cached response or
\* generation with streaming and then the cache store; generation starts
\* only after the cache check ended without a hit or with the cache
\* disabled; a request that has ended has exactly one terminal outcome; and
\* where no awaited call hangs and the generation stream is finite, every
\* request ends.
C14_StepsInOrderToOneOutcome ==
    /\ [](StepsInOrder /\ (pc = "done" => ExactlyOneOutcome))
    /\ (InFlight ~> pc = "done")

\* A request that went through every step: lookup without a hit, generation,
\* stream closed, store.
C14_Witness ==
    /\ pc = "done"
    /\ calls.checkCache = 1
    /\ calls.storeInCache = 1
    /\ StreamClosed
    /\ forwarded # <<>>

\* The cosine similarity of a chunk to the query: the vector store returns
\* the cosine distance as score.
Similarity(chunk) == 100 - chunk.score

Kept(chunk) == \E j \in 1..Len(relevantChunks) : relevantChunks[j] = chunk

\* C15: of the chunks the search returned, those whose similarity to the
\* query is below vectordb.scoreThreshold are filtered out of the context
\* and those whose similarity is at or above it are kept, the score of the
\* store being a cosine distance (lower = more similar).
C15_FilterKeepsTheSimilar ==
    \A i \in 1..Len(allChunks) :
        Kept(allChunks[i])
            <=> Similarity(allChunks[i]) >= settings.vectordb.scoreThreshold

----------------------------------------------------------------------------
(* Properties of retrieval (SpecRetrieval) *)

\* The positions of allChunks whose score is at or above the threshold.
PassingPositions ==
    {i \in 1..Len(allChunks) :
        allChunks[i].score >= settings.vectordb.scoreThreshold}

\* The n-th smallest member of a set of positions.
NthOf(positions, n) ==
    CHOOSE i \in positions : Cardinality({k \in positions : k < i}) = n - 1

\* C16: for every topK >= 1 and every scoreThreshold in [0,1], the filtered
\* passages are a sub-sequence of the raw search results (nothing added,
\* relative order kept) and consist of exactly those results whose score is
\* at or above scoreThreshold.
C16_FilteredIsExactSubsequence ==
    pc # "searchSimilarChunks" =>
        /\ Len(allChunks) <= settings.vectordb.topK
        /\ Len(relevantChunks) = Cardinality(PassingPositions)
        /\ \A j \in 1..Len(relevantChunks) :
              relevantChunks[j] = allChunks[NthOf(PassingPositions, j)]

\* A search whose results are partly kept, one of them exactly at the
\* threshold, and partly dropped.
C16_Witness ==
    /\ pc # "searchSimilarChunks"
    /\ Len(allChunks) = 3
    /\ Len(relevantChunks) = 2
    /\ relevantChunks[1].score = settings.vectordb.scoreThreshold
    /\ settings.vectordb.scoreThreshold > 0

\* The template with its placeholder replaced by the text as it stands.
WithContext(template, text) ==
    LET i == CHOOSE k \in 1..Len(template) : template[k] = "{{context}}"
    IN  SubSeq(template, 1, i - 1) \o text
            \o SubSeq(template, i + 1, Len(template))

\* C17: the context is the sentinel exactly when no passage passes the
\* score filter (in particular when the search returns nothing), and the
\* generation uses the no-documents template exactly in that case;
\* otherwise it uses the context template with the placeholder substituted
\* by the labeled passages.
C17_SentinelAndTemplates ==
    pc \in {"checkCache", "streaming"} =>
        LET context == BuildContext(relevantChunks) IN
        /\ context = NoDocumentsContext <=> relevantChunks = <<>>
        /\ allChunks = <<>> => context = NoDocumentsContext
        /\ pc = "streaming" =>
              SystemPrompt(context) =
                  IF relevantChunks = <<>> THEN noDocsPromptTemplate
                  ELSE WithContext(systemPromptTemplate,
                                   LabeledPassages(relevantChunks, 1))

----------------------------------------------------------------------------
(* Properties of chunkText (SpecChunk) *)

\* A text without its spaces.
NoSpaces(text) == SelectSeq(text, LAMBDA c : c \notin Whitespace)

\* Chunk k without its leading overlap: without the words that were carried
\* over when chunk k - 1 was closed.  Spaces are left out of the comparison.
WithoutOverlap(k) ==
    LET content == NoSpaces(chunkResult.chunks[k].content)
        carried == IF k = 1 THEN <<>>
                   ELSE NoSpaces(Join(chunkResult.closed[k - 1].overlapWords))
    IN  SubSeq(content, Len(carried) + 1, Len(content))

\* C18: for every text, chunkSize and overlap, the chunks in index order,
\* each without its leading overlap, make up the whitespace-normalized text:
\* no character of it is lost (spaces aside).
C18_ChunksCoverTheText ==
    chunkResult.returned =>
        Concat([k \in 1..Len(chunkResult.chunks) |-> WithoutOverlap(k)])
            = NoSpaces(Normalize(chunkArgs.text))

\* C19: for every text whose normalized form is non-empty and no longer
\* than chunkSize, chunkText returns exactly one chunk, with chunkIndex 0,
\* totalChunks 1 and the normalized text as content.
C19_ShortTextIsOneChunk ==
    (chunkResult.returned
        /\ Len(Normalize(chunkArgs.text)) \in 1..chunkArgs.chunkSize) =>
        chunkResult.chunks = <<[content |-> Normalize(chunkArgs.text),
                                chunkIndex |-> 0, totalChunks |-> 1]>>

\* The last n words of a list of words.
LastWords(words, n) == SubSeq(words, Len(words) - n + 1, Len(words))

\* The characters of a run of words, one separator counted for each word.
RECURSIVE LengthWithSeparators(_)
LengthWithSeparators(words) ==
    IF words = <<>> THEN 0
    ELSE Len(Head(words)) + 1 + LengthWithSeparators(Tail(words))

\* The shortest run of trailing words of the list whose measure is at least
\* overlap, or the whole list if its measure is less: the number of words.
ShortestRun(words, Measure(_), overlap) ==
    LET enough == {n \in 0..Len(words) : Measure(LastWords(words, n)) >= overlap}
    IN  IF enough = {} THEN Len(words)
        ELSE CHOOSE n \in enough : \A m \in enough : n <= m

JoinedLength(words) == Len(Join(words))

\* C20 as stated: when a chunk is closed, the words carried over are the
\* shortest run of whole trailing words of the closed chunk whose character
\* length is at least overlap, or the whole closed chunk if it is shorter.
C20_OverlapIsShortestRun ==
    \A k \in 1..Len(chunkResult.closed) :
        LET words == Split(Trim(chunkResult.closed[k].currentChunk))
        IN  chunkResult.closed[k].overlapWords =
                LastWords(words, ShortestRun(words, JoinedLength,
                                             chunkArgs.overlap))

\* C20, amended: when a chunk is closed, the words carried over are, in
\* original order, the shortest run of trailing words of the chunk as it
\* stands before trimming (split at single spaces) whose character length,
\* counting one separator for each word, is at least overlap, or all its
\* words if that length is less than overlap.
C20_OverlapCountsSeparators ==
    \A k \in 1..Len(chunkResult.closed) :
        LET words == Split(chunkResult.closed[k].currentChunk)
        IN  chunkResult.closed[k].overlapWords =
                LastWords(words, ShortestRun(words, LengthWithSeparators,
                                             chunkArgs.overlap))

\* A closing that carries over a proper run of words whose text is one
\* character shorter than overlap.
C20_Witness ==
    \E k \in 1..Len(chunkResult.closed) :
        LET c == chunkResult.closed[k] IN
        /\ Len(c.overlapWords) >= 1
        /\ Len(c.overlapWords) < Len(Split(c.currentChunk))
        /\ Len(Join(c.overlapWords)) = chunkArgs.overlap - 1

----------------------------------------------------------------------------
(* Properties of ingestion (SpecIngest) *)

\* The i-th document of the batch failed in this run.
FailedDocument(i) == i <= Len(faults) /\ faults[i] # NoFault

\* C21: when a run that reached its documents has ended, the response
\* reports every document of the batch, in order, and each document whose
\* download, parsing, embedding or storing failed has status "error": one
\* failing document does not keep the others from being processed.
C21_FailedDocumentIsolated ==
    (ingestPc = "done" /\ faults # <<>>) =>
        /\ ingestResponse.hasResults
        /\ Len(ingestResponse.results) = Len(files)
        /\ \A i \in 1..Len(files) :
              /\ ingestResponse.results[i].filename = files[i].name
              /\ FailedDocument(i) =>
                    ingestResponse.results[i].status = "error"

\* C27: no chunk of a document that failed in this run is in the vector
\* store.
C27_FailedDocumentStoresNothing ==
    \A i \in 1..Len(files) :
        FailedDocument(i) =>
            \A k \in 1..Len(docs) : docs[k].filename # files[i].name

----------------------------------------------------------------------------
(* Properties of createVectorIndex (SpecIndex) *)

\* The call of caller c has ended with an exception although the store
\* answered every command the call sent.
FailedOnAnsweringStore(c) ==
    callers[c].pc = "rejected" /\ callers[c].answered

\* C22: the index is created only where it is absent, an existing index is
\* never created again or changed, and a call that began on a store that
\* has the index, however many calls went before it, sends no FT.CREATE and
\* does not fail as long as the store answers.
C22_CreateVectorIndexIdempotent ==
    /\ [][/\ ftCreates' # ftCreates => ~indexExists
          /\ indexExists => indexExists' /\ ftCreates' = ftCreates]_vars
    /\ [](\A c \in Callers :
            callers[c].existed =>
                /\ ~FailedOnAnsweringStore(c)
                /\ callers[c].answered => callers[c].pc # "ft.create")

\* A second call in sequence has resolved on a store that had the index.
C22_Witness ==
    \E c \in Callers :
        /\ callers[c].n >= 2
        /\ callers[c].existed
        /\ callers[c].answered
        /\ callers[c].pc = "resolved"

\* C25: of the calls racing on a store without the index none fails while
\* the store answers, and the index is created once.
C25_ConcurrentCallsBothSucceed ==
    /\ ftCreates <= 1
    /\ \A c \in Callers : ~FailedOnAnsweringStore(c)

----------------------------------------------------------------------------
(* The chat orchestrator and the vector index (Spec) *)

\* C26: a request answered 400, for an empty message list or for a list
\* without a user message, has not called createVectorIndex.
C26_RejectedInputLeavesStoreUntouched ==
    Rejected => calls.createVectorIndex = 0

----------------------------------------------------------------------------
(* Properties of the settings store (SpecSettings) *)

\* C23: whatever was posted or reset, topK is an integer of at least 1 and
\* both thresholds lie between 0 and 1 (0 and 100 hundredths).
C23_SettingsStayInRange ==
    /\ currentSettings.vectordb.topK \in Nat \ {0}
    /\ currentSettings.vectordb.scoreThreshold \in 0..100
    /\ currentSettings.langcache.similarityThreshold \in 0..100

\* C24: the request reads the settings once, when it is accepted, and the
\* snapshot stays what it was while the settings store is updated or reset:
\* the number of chunks searched for, the score filter, the decision to look
\* up and the decision to store all follow the snapshot, so that a store is
\* only made by a request that also looked up.
C24_OneSettingsSnapshot ==
    [][/\ (~InFlight /\ pc' = "createVectorIndex") =>
              settings' = currentSettings
       /\ InFlight => settings' = settings
       /\ (pc = "searchSimilarChunks" /\ pc' \in {"checkCache", "streaming"}) =>
              /\ Len(allChunks') <= settings.vectordb.topK
              /\ relevantChunks' = FilterByScore(allChunks', settings)
              /\ (pc' = "checkCache") <=> settings.langcache.enabled
       /\ (pc = "streaming" /\ pc' = "storeInCache") =>
              settings.langcache.enabled
       /\ calls'.storeInCache > calls.storeInCache =>
              /\ settings.langcache.enabled
              /\ calls.checkCache = 1]_vars

\* A request looked up and stored although the cache was switched off in
\* the settings store while the request was in flight.
C24_Witness ==
    /\ calls.checkCache = 1
    /\ calls.storeInCache = 1
    /\ settings.langcache.enabled
    /\ ~currentSettings.langcache.enabled
    /\ settings.vectordb # currentSettings.vectordb

----------------------------------------------------------------------------
(* Further properties of chunkText (SpecChunk) *)

\* s occurs in t as a run of consecutive characters.
IsSubstring(s, t) ==
    \E i \in 1..(Len(t) - Len(s) + 1) : SubSeq(t, i, i + Len(s) - 1) = s

\* C28: every chunk returned occurs, character by character, in the
\* whitespace-normalized text.
C28_ChunksAreSubstrings ==
    chunkResult.returned =>
        \A k \in 1..Len(chunkResult.chunks) :
            IsSubstring(chunkResult.chunks[k].content,
                        Normalize(chunkArgs.text))

\* The elements of a sequence.
Range(seq) == {seq[i] : i \in 1..Len(seq)}

\* The chunk holds a sentence unit that alone is longer than chunkSize.
HoldsLongSentence(content) ==
    \E sentence \in Range(Sentences(Normalize(chunkArgs.text))) :
        /\ Len(sentence) > chunkArgs.chunkSize
        /\ IsSubstring(Trim(sentence), content)

\* C29: every chunk returned is at most chunkSize characters long, unless it
\* holds a sentence unit that is longer than chunkSize by itself.
C29_ChunksAreBounded ==
    chunkResult.returned =>
        \A k \in 1..Len(chunkResult.chunks) :
            \/ Len(chunkResult.chunks[k].content) <= chunkArgs.chunkSize
            \/ HoldsLongSentence(chunkResult.chunks[k].content)

----------------------------------------------------------------------------
(* Properties of the logger (SpecLog) *)

\* The last n elements of a sequence, all of them if it has fewer.
LastOf(seq, n) ==
    SubSeq(seq, IF n >= Len(seq) THEN 1 ELSE Len(seq) - n + 1, Len(seq))

\* C30: the log never holds more than MAX_LOGS entries; it holds the most
\* recent entries added since the last clearLogs, in the order they were
\* added, and that is what getLogs returns.
C30_LogIsMostRecentEntries ==
    /\ Len(logs) <= MAX_LOGS
    /\ logs = LastOf(added, MAX_LOGS)
    /\ getLogs(0, "") = LastOf(added, MAX_LOGS)

\* After a clear, more than MAX_LOGS entries were added: the oldest one is
\* gone and the log starts with the second.
C30_Witness ==
    /\ clears >= 1
    /\ Len(added) = MAX_LOGS + 1
    /\ Len(logs) = MAX_LOGS
    /\ logs[1] = added[2]

====
